---- MODULE Spec2Model ----
(***************************************************************************)
(* A model of src/app.py, the Streamlit dashboard script: the CSV load,    *)
(* the sidebar filters (category, date range, top-N slider), the derived   *)
(* tables (KPIs, weekly series, category Pareto table, top products) and   *)
(* the automated insights.  One run of the script is the sequence          *)
(* Load -> Sidebar -> Aggregate -> Insights; every widget interaction      *)
(* re-runs the script on the cached dataset (Rerun).                       *)
(*                                                                         *)
(* Numbers: total_amount, profit_margin and quantity are integers; the     *)
(* float results of a division (percent, mean, average order value) are    *)
(* fixed-point numbers with Scale units per 1, rounded down, so that a     *)
(* sum of shares is 100 only up to one unit per row.  Timestamps are       *)
(* seconds since Monday 2024-01-01 00:00:00.                               *)
(***************************************************************************)
EXTENDS Integers, Sequences, FiniteSets

VARIABLES
    pc,                  \* position of the script run
    file,                \* the CSV on disk: [readable, columns, rows]
    df_raw,              \* load_data's cached frame (st.cache_data)
    columns,             \* df.columns
    df,                  \* the frame bound to the name df
    df_cat,              \* df after the category filter, before the date filter
    selected_categories, \* the multiselect's value
    date_range,          \* the date_input's value: <<>>, <<s>> or <<s, e>> (days)
    top_n,               \* the slider's value
    kpi,                 \* total_sales, avg_profit, total_qty, num_orders, avg_order_value
    sales_time,          \* Overview tab: weekly series
    pareto,              \* Pareto tab: category table
    top_products,        \* Pareto tab: top products table
    insights,            \* list of insight sentences
    notice               \* the 'Tidak cukup data' notice was written

vars == <<pc, file, df_raw, columns, df, df_cat, selected_categories, date_range,
          top_n, kpi, sales_time, pareto, top_products, insights, notice>>

-----------------------------------------------------------------------------
(* Bounds of the model *)

\* rows of a table in SpecCategory, SpecDate and SpecWeekly
MaxRows == 3
\* transactions of the pool the tables of SpecTop are arranged from
PoolSize == 8
\* distinct product keys of that pool
NumProducts == 6
\* largest slider value tried (the slider itself goes to SliderMax)
TopNBound == 6
\* fixed-point units per 1 of a float quotient
Scale == 1000

(* Constants of the program *)

\* st.sidebar.slider(min_value=5, max_value=30)
SliderMin == 5
SliderMax == 30
\* pd.Timedelta(days=1), in seconds
SecondsPerDay == 86400
\* pd.Timedelta(seconds=1)
OneSecond == 1
\* freq='W': bins of seven days, labelled by the Sunday that ends them
DaysPerWeek == 7
\* .head(1) of the insight's product ranking
InsightHead == 1
\* percent = share * 100
Hundred == 100

(* Markers *)

\* a missing cell (NaN) of a text column
NA == "NaN"
\* a date cell that pd.to_datetime cannot parse
BadDate == -2
\* NaT, what errors='coerce' turns such a cell into
NaT == -1
\* a float that is NaN or infinite (x / 0, mean of nothing)
NotFinite == -999999999
\* None
None == "None"

-----------------------------------------------------------------------------
(* Sequences *)

Min(a, b) == IF a <= b THEN a ELSE b
Max(a, b) == IF a >= b THEN a ELSE b

Range(s) == {s[i] : i \in 1..Len(s)}

SetMin(S) == CHOOSE x \in S : \A y \in S : x <= y
SetMax(S) == CHOOSE x \in S : \A y \in S : x >= y

RECURSIVE SeqsUpTo(_, _)
SeqsUpTo(S, n) ==
    IF n = 0 THEN {<<>>}
    ELSE LET shorter == SeqsUpTo(S, n - 1)
         IN shorter \cup {Append(s, x) : s \in {t \in shorter : Len(t) = n - 1}, x \in S}

\* Series.sum(): the sum of column fld over the rows of d (0 for no rows)
RECURSIVE SumField(_, _)
SumField(d, fld) ==
    IF d = <<>> THEN 0 ELSE Head(d)[fld] + SumField(Tail(d), fld)

-----------------------------------------------------------------------------
(* Section 2: load and normalise *)

\* the candidate names of the date column and of the product label, by priority
DateCandidates == <<"order_date", "date", "order_datetime", "transaction_date">>
ProductCandidates == <<"product_name", "product_title", "product_id">>

\* the first candidate that is a column, or None
FirstPresent(candidates, cols) ==
    LET hits == SelectSeq(candidates, LAMBDA c : c \in cols)
    IN IF hits = <<>> THEN None ELSE Head(hits)

ResolveDateCol(cols) == FirstPresent(DateCandidates, cols)
ResolveProductLabel(cols) == FirstPresent(ProductCandidates, cols)

\* pd.to_datetime(errors='coerce') on one cell
ToDatetime(cell) == IF cell = BadDate THEN NaT ELSE cell

\* the frame after the date column, when there is one, has been parsed
ParseDates(rows, cols) ==
    IF ResolveDateCol(cols) = None THEN rows
    ELSE [i \in 1..Len(rows) |->
             [rows[i] EXCEPT !.order_date = ToDatetime(rows[i].order_date)]]

-----------------------------------------------------------------------------
(* Section 3: sidebar filters *)

\* list(df['category'].dropna().unique()), the multiselect's options
Categories(d) == {d[i].category : i \in 1..Len(d)} \ {NA}

\* a slip: the filter applied to an empty selection too
CategoryFilterAlways(d, selected) ==
    SelectSeq(d, LAMBDA r : r.category \in selected)

\* if selected_categories: df = df[df['category'].isin(selected_categories)]
CategoryFilter(d, selected) ==
    IF selected # {} THEN SelectSeq(d, LAMBDA r : r.category \in selected) ELSE d

DayOf(ts) == ts \div SecondsPerDay

\* the calendar days that hold a row of d
DaysPresent(d) == {DayOf(d[i].order_date) : i \in {j \in 1..Len(d) : d[j].order_date # NaT}}

\* what st.date_input can return: a complete range, or only its start while the
\* user is still choosing; nothing when the frame has no date (min_date is NaT)
DateInputValues(d) ==
    LET days == DaysPresent(d)
    IN IF days = {} THEN {<<>>}
       ELSE {r \in days \X days : r[1] <= r[2]} \cup {<<SetMin(days)>>}

\* a slip: the end of the range left at the midnight that starts its last day
EndOfRangeMidnight(range) == range[2] * SecondsPerDay

\* end_dt = to_datetime(date_range[1]) + 1 day - 1 second
EndOfRange(range) == range[2] * SecondsPerDay + SecondsPerDay - OneSecond
StartOfRange(range) == range[1] * SecondsPerDay

\* a slip: the start of the range compared with > instead of >=
DateFilterAfterStart(d, range) ==
    IF Len(range) = 2
    THEN SelectSeq(d, LAMBDA r : /\ r.order_date # NaT
                                 /\ r.order_date > StartOfRange(range)
                                 /\ r.order_date <= EndOfRange(range))
    ELSE d

\* df[(df[date_col] >= start_dt) & (df[date_col] <= end_dt)]; a comparison with
\* NaT is False
DateFilter(d, range) ==
    IF Len(range) = 2
    THEN SelectSeq(d, LAMBDA r : /\ r.order_date # NaT
                                 /\ r.order_date >= StartOfRange(range)
                                 /\ r.order_date <= EndOfRange(range))
    ELSE d

\* the values the slider can take, up to the model's bound
SliderValues == {n \in SliderMin..SliderMax : n <= TopNBound}

-----------------------------------------------------------------------------
(* Sections 4 and 5: KPIs and the tables behind the tabs *)

\* a float quotient a / b in fixed point; dividing by zero gives inf or NaN
Divide(a, b) == IF b = 0 THEN NotFinite ELSE (a * Scale) \div b

\* Series.mean(): NaN for no rows
Mean(d, fld) == Divide(SumField(d, fld), Len(d))

\* a slip: the quotient taken without the guard on num_orders
AvgOrderValueUnguarded(total_sales, num_orders) == Divide(total_sales, num_orders)

\* (total_sales / num_orders) if num_orders > 0 else 0
AvgOrderValue(total_sales, num_orders) ==
    IF num_orders > 0 THEN Divide(total_sales, num_orders) ELSE 0

KPIs(d) ==
    [total_sales     |-> SumField(d, "total_amount"),
     avg_profit      |-> Mean(d, "profit_margin"),
     total_qty       |-> SumField(d, "quantity"),
     num_orders      |-> Len(d),
     avg_order_value |-> AvgOrderValue(SumField(d, "total_amount"), Len(d))]

\* the keys of a groupby come out sorted: text keys in the order of CategoryOrder,
\* product keys (named by their rank among the product names) in ascending order
CategoryOrder == <<"A", "B", "C">>
ProductOrder == [i \in 1..NumProducts |-> i]
\* a missing product key
NAKey == 0

\* df.groupby(fld)[['total_amount','profit_margin','quantity']].sum().reset_index():
\* one row per key present, in key order; rows whose key is missing are left out
GroupBy(d, fld, order) ==
    LET keys == SelectSeq(order, LAMBDA k : \E i \in 1..Len(d) : d[i][fld] = k)
    IN [i \in 1..Len(keys) |->
          LET g == SelectSeq(d, LAMBDA r : r[fld] = keys[i])
          IN [key           |-> keys[i],
              total_amount  |-> SumField(g, "total_amount"),
              profit_margin |-> SumField(g, "profit_margin"),
              quantity      |-> SumField(g, "quantity")]]

\* every order of the rows of S in which total_amount never increases
RECURSIVE DescOrders(_)
DescOrders(S) ==
    IF S = {} THEN {<<>>}
    ELSE UNION {{<<m>> \o t : t \in DescOrders(S \ {m})} :
                m \in {x \in S : \A y \in S : y.total_amount <= x.total_amount}}

\* a slip: the rollup left in key order, not sorted
SortValuesForgotten(t) == {t}

\* sort_values('total_amount', ascending=False): the default sort (quicksort) is not
\* stable, so rows with equal totals may come out in any order
SortValuesDesc(t) == DescOrders(Range(t))

\* a slip: one row too few
HeadRowsOneLess(t, n) == SubSeq(t, 1, Min(Max(n - 1, 0), Len(t)))

\* DataFrame.head(n)
HeadRows(t, n) ==
    IF n >= 0 THEN SubSeq(t, 1, Min(n, Len(t))) ELSE SubSeq(t, 1, Max(Len(t) + n, 0))

\* a slip: the share left as a fraction, not multiplied by 100
PercentAsFraction(amount, total) == Divide(amount, total)

\* pareto['total_amount'] / pareto['total_amount'].sum() * 100
Percent(amount, total) ==
    IF Divide(amount, total) = NotFinite THEN NotFinite ELSE Divide(amount, total) * Hundred

\* Series.cumsum() up to row i
RECURSIVE CumSum(_, _)
CumSum(p, i) ==
    IF i = 0 THEN 0
    ELSE IF p[i] = NotFinite \/ CumSum(p, i - 1) = NotFinite THEN NotFinite
    ELSE p[i] + CumSum(p, i - 1)

\* the Pareto table of the category totals, already sorted
ParetoTable(sorted) ==
    LET total == SumField(sorted, "total_amount")
        percent == [i \in 1..Len(sorted) |-> Percent(sorted[i].total_amount, total)]
    IN [i \in 1..Len(sorted) |->
          [category     |-> sorted[i].key,
           total_amount |-> sorted[i].total_amount,
           percent      |-> percent[i],
           cum_percent  |-> CumSum(percent, i)]]

\* the label of the weekly bin a timestamp falls in: the Sunday that ends its week
WeekEnd(ts) == ((DayOf(ts) \div DaysPerWeek) * DaysPerWeek + (DaysPerWeek - 1)) * SecondsPerDay

\* a slip: only the weeks that hold a row, as a plain groupby of the week would give
WeeklySeriesSparse(d) ==
    LET dated == SelectSeq(d, LAMBDA r : r.order_date # NaT)
        ends == {WeekEnd(dated[i].order_date) : i \in 1..Len(dated)}
        nth(k) == CHOOSE x \in ends : Cardinality({y \in ends : y < x}) = k - 1
    IN [i \in 1..Cardinality(ends) |->
          [week_end     |-> nth(i),
           total_amount |-> SumField(SelectSeq(dated,
                               LAMBDA r : WeekEnd(r.order_date) = nth(i)),
                               "total_amount")]]

\* df.groupby(pd.Grouper(key=date_col, freq='W'))['total_amount'].sum().reset_index():
\* one bin per week from the first dated row's week to the last one's, the sum of
\* an empty bin being 0; rows without a date are in no bin
WeeklySeries(d) ==
    LET dated == SelectSeq(d, LAMBDA r : r.order_date # NaT)
        ends == {WeekEnd(dated[i].order_date) : i \in 1..Len(dated)}
        week == DaysPerWeek * SecondsPerDay
    IN IF dated = <<>> THEN <<>>
       ELSE [i \in 1..((SetMax(ends) - SetMin(ends)) \div week + 1) |->
               LET label == SetMin(ends) + (i - 1) * week
               IN [week_end     |-> label,
                   total_amount |-> SumField(SelectSeq(dated,
                                       LAMBDA r : WeekEnd(r.order_date) = label),
                                       "total_amount")]]

-----------------------------------------------------------------------------
(* Section 6: automated insights *)

\* a slip: the test of top_cat left out
TruthyAlways(x) == TRUE

\* Python truth of top_cat: None is false, a category name is true
Truthy(x) == x # None

\* the sentence about the top category, if any
CategoryInsight(cols, par) ==
    IF "category" \in cols
    THEN LET top_cat == IF par # <<>> THEN par[1].category ELSE None
             top_pct == IF par # <<>> THEN par[1].percent ELSE None
         IN IF Truthy(top_cat)
            THEN <<[about |-> "category", name |-> top_cat, value |-> top_pct]>>
            ELSE <<>>
    ELSE <<>>

\* the sentence about the top product, if any; ranking is the sorted product rollup
ProductInsight(cols, ranking) ==
    IF ResolveProductLabel(cols) # None /\ "total_amount" \in cols
    THEN LET prod_top == HeadRows(ranking, InsightHead)
         IN IF prod_top # <<>>
            THEN <<[about |-> "product", name |-> prod_top[1].key,
                    value |-> prod_top[1].total_amount]>>
            ELSE <<>>
    ELSE <<>>

-----------------------------------------------------------------------------
(* The outcomes of the two rankings *)

\* pareto: group by category, sum, sort descending, percent and cum_percent
Pareto(d) ==
    {ParetoTable(sorted) : sorted \in SortValuesDesc(GroupBy(d, "category", CategoryOrder))}

\* the product rollup sorted by total_amount, descending
ProductRanking(d) == SortValuesDesc(GroupBy(d, "product", ProductOrder))

\* top_products: the first top_n rows of the ranking
TopProducts(d, n) == {HeadRows(ranking, n) : ranking \in ProductRanking(d)}

-----------------------------------------------------------------------------
(* The script *)

\* a value not computed yet in this run
Unset == <<>>

Load ==
    /\ pc = "start"
    /\ file.readable
    /\ pc' = "loaded"
    /\ df_raw' = file.rows
    /\ columns' = file.columns
    /\ df' = ParseDates(file.rows, file.columns)
    /\ UNCHANGED <<file, df_cat, selected_categories, date_range, top_n, kpi,
                   sales_time, pareto, top_products, insights, notice>>

\* load_data raised: st.error, st.stop
LoadFail ==
    /\ pc = "start"
    /\ ~file.readable
    /\ pc' = "stopped"
    /\ UNCHANGED <<file, df_raw, columns, df, df_cat, selected_categories, date_range,
                   top_n, kpi, sales_time, pareto, top_products, insights, notice>>

\* section 3: the category multiselect and filter, the date input and filter, the
\* top-N slider
Sidebar ==
    /\ pc = "loaded"
    /\ \E selected \in (IF "category" \in columns THEN SUBSET Categories(df) ELSE {{}}) :
         LET dcat == IF "category" \in columns THEN CategoryFilter(df, selected) ELSE df
         IN \E range \in (IF ResolveDateCol(columns) # None
                          THEN DateInputValues(dcat) ELSE {<<>>}) :
              /\ selected_categories' = selected
              /\ df_cat' = dcat
              /\ date_range' = range
              /\ df' = IF ResolveDateCol(columns) # None THEN DateFilter(dcat, range) ELSE dcat
    /\ top_n' \in SliderValues
    /\ pc' = "filtered"
    /\ UNCHANGED <<file, df_raw, columns, kpi, sales_time, pareto, top_products,
                   insights, notice>>

\* sections 4 and 5: the KPI cards and the tables of the tabs
Aggregate ==
    /\ pc = "filtered"
    /\ kpi' = KPIs(df)
    /\ sales_time' = IF ResolveDateCol(columns) # None THEN WeeklySeries(df) ELSE Unset
    /\ pareto' \in (IF "category" \in columns THEN Pareto(df) ELSE {Unset})
    /\ top_products' \in (IF ResolveProductLabel(columns) # None
                          THEN TopProducts(df, top_n) ELSE {Unset})
    /\ pc' = "aggregated"
    /\ UNCHANGED <<file, df_raw, columns, df, df_cat, selected_categories, date_range,
                   top_n, insights, notice>>

\* section 6: the insight list; the product ranking is computed again from df, and
\* the same sort of the same totals puts the same row first
Insights ==
    /\ pc = "aggregated"
    /\ \E ranking \in (IF ResolveProductLabel(columns) # None
                       THEN {r \in ProductRanking(df) : HeadRows(r, top_n) = top_products}
                       ELSE {Unset}) :
         /\ insights' = CategoryInsight(columns, pareto) \o ProductInsight(columns, ranking)
         /\ notice' = (Len(insights') = 0)
    /\ pc' = "done"
    /\ UNCHANGED <<file, df_raw, columns, df, df_cat, selected_categories, date_range,
                   top_n, kpi, sales_time, pareto, top_products>>

\* a widget interaction: the script runs again from the top, load_data answering
\* from its cache
Rerun ==
    /\ pc = "done"
    /\ pc' = "loaded"
    /\ df' = ParseDates(df_raw, columns)
    /\ df_cat' = Unset
    /\ selected_categories' = {}
    /\ date_range' = Unset
    /\ top_n' = 0
    /\ kpi' = Unset
    /\ sales_time' = Unset
    /\ pareto' = Unset
    /\ top_products' = Unset
    /\ insights' = Unset
    /\ notice' = FALSE
    /\ UNCHANGED <<file, df_raw, columns>>

Next == Load \/ LoadFail \/ Sidebar \/ Aggregate \/ Insights \/ Rerun

-----------------------------------------------------------------------------
(* The files the script is run on *)

Row(c, p, a, m, q, t) ==
    [category |-> c, product |-> p, total_amount |-> a, profit_margin |-> m,
     quantity |-> q, order_date |-> t]

\* the numeric columns every chart reads
BaseColumns == {"total_amount", "profit_margin", "quantity"}

Unreadable == [readable |-> FALSE, columns |-> {}, rows |-> <<>>]

Files(colsets, tables) ==
    {[readable |-> TRUE, columns |-> c, rows |-> t] : c \in colsets, t \in tables}

\* the state before the first run, the CSV being one of files or unreadable
InitWith(files) ==
    /\ file \in files \cup {Unreadable}
    /\ pc = "start"
    /\ df_raw = Unset
    /\ columns = {}
    /\ df = Unset
    /\ df_cat = Unset
    /\ selected_categories = {}
    /\ date_range = Unset
    /\ top_n = 0
    /\ kpi = Unset
    /\ sales_time = Unset
    /\ pareto = Unset
    /\ top_products = Unset
    /\ insights = Unset
    /\ notice = FALSE

\* categories and signed amounts vary
CategoryRows ==
    {Row(c, 1, a, 10, 1, BadDate) : c \in {"A", "B", NA}, a \in {-100, 100, 200}}

CategoryFiles ==
    Files({BaseColumns \cup {"category", "product_name"},
           BaseColumns \cup {"product_name"}},
          SeqsUpTo(CategoryRows, MaxRows))

InitCategory == InitWith(CategoryFiles)
SpecCategory == InitCategory /\ [][Next]_vars

\* order dates around the ends of a day vary, with two categories
DateRows ==
    {Row(c, 1, 100, 10, 1, t) : c \in {"A", "B"},
                                t \in {BadDate, 0, 82800, 86399, 86400, 86401}}

DateFiles ==
    Files({BaseColumns \cup {"category", "product_name", "order_date"},
           BaseColumns \cup {"category", "product_name"}},
          SeqsUpTo(DateRows, MaxRows))

InitDate == InitWith(DateFiles)
SpecDate == InitDate /\ [][Next]_vars

\* order dates in different weeks vary: Tuesday and Sunday of the first week, Monday
\* of the second, Tuesday of the fourth
WeeklyRows ==
    {Row("A", 1, a, 10, 1, t) : a \in {100, 250},
                                t \in {BadDate, 86400 + 36000, 6 * 86400 + 82800,
                                       7 * 86400, 22 * 86400}}

WeeklyFiles ==
    Files({BaseColumns \cup {"category", "product_name", "date", "transaction_date"},
           BaseColumns \cup {"category", "product_name"}},
          SeqsUpTo(WeeklyRows, MaxRows))

InitWeekly == InitWith(WeeklyFiles)
SpecWeekly == InitWeekly /\ [][Next]_vars

\* products vary: the pool holds one transaction of each product, then second
\* transactions of the first products, and last one whose product key is missing;
\* a table is any selection of the pool's transactions, in file order or reversed
PoolRow(i) ==
    Row("A",
        IF i = PoolSize THEN NAKey ELSE ((i - 1) % NumProducts) + 1,
        100 * (1 + (i % 3)),
        10 + i,
        (i % 4) + 1,
        BadDate)

Pool == [i \in 1..PoolSize |-> PoolRow(i)]

Reverse(s) == [i \in 1..Len(s) |-> s[Len(s) + 1 - i]]

\* the rows of s at the indices I, in the order of s
Selection(s, I) ==
    LET nth(k) == CHOOSE x \in I : Cardinality({y \in I : y < x}) = k - 1
    IN [k \in 1..Cardinality(I) |-> s[nth(k)]]

TopTables ==
    {Selection(Pool, I) : I \in SUBSET (1..PoolSize)}
        \cup {Selection(Reverse(Pool), I) : I \in SUBSET (1..PoolSize)}

TopFiles ==
    Files({BaseColumns \cup {"category", "product_name"},
           BaseColumns \cup {"category", "product_id", "product_title"},
           BaseColumns \cup {"category"},
           BaseColumns \cup {"product_name"}},
          TopTables)

InitTop == InitWith(TopFiles)
SpecTop == InitTop /\ [][Next]_vars

-----------------------------------------------------------------------------
(* What the claims are stated with *)

Aggregated == pc \in {"aggregated", "done"}
Filtered == pc \in {"filtered", "aggregated", "done"}

\* the frame the sidebar filters start from
Loaded == ParseDates(df_raw, columns)

Abs(x) == IF x < 0 THEN 0 - x ELSE x

\* out holds exactly the rows of inp that satisfy Keep, in the order of inp
ExactlyTheRows(out, inp, Keep(_)) ==
    \E f \in [1..Len(out) -> 1..Len(inp)] :
        /\ \A i, j \in 1..Len(out) : i < j => f[i] < f[j]
        /\ \A i \in 1..Len(out) : out[i] = inp[f[i]]
        /\ {f[i] : i \in 1..Len(out)} = {j \in 1..Len(inp) : Keep(inp[j])}

\* a rounded quotient is within one unit of the exact one, and a percent within
\* Hundred units; n rows add up to n times that
Tolerance(n) == Hundred * n

PercentSum(t) == SumField(t, "percent")

\* the product keys of a frame, the missing one left out
ProductsOf(d) == {d[i].product : i \in 1..Len(d)} \ {NAKey}

\* the sum of column fld over the rows of product k
ProductSum(d, k, fld) == SumField(SelectSeq(d, LAMBDA r : r.product = k), fld)

\* the index of the first row of product k
FirstSeen(d, k) == SetMin({i \in 1..Len(d) : d[i].product = k})

\* the place of product k in the table t, 0 when it is not there
PlaceIn(t, k) ==
    IF \E i \in 1..Len(t) : t[i].key = k
    THEN CHOOSE i \in 1..Len(t) : t[i].key = k ELSE 0

\* once the slider has been read, top_n is one of its values: no run of the script
\* reaches the top products with a top_n below SliderMin
SliderInRange == Filtered => top_n \in SliderMin..SliderMax

-----------------------------------------------------------------------------
(* C1 *)

ParetoDefined ==
    /\ Aggregated
    /\ "category" \in columns
    /\ pareto # <<>>
    /\ SumField(pareto, "total_amount") # 0

ParetoSumsTo100 ==
    /\ Abs(PercentSum(pareto) - Hundred * Scale) <= Tolerance(Len(pareto))
    /\ Abs(pareto[Len(pareto)].cum_percent - Hundred * Scale) <= Tolerance(Len(pareto))

ParetoCumNonDecreasing ==
    \A i \in 1..(Len(pareto) - 1) : pareto[i].cum_percent <= pareto[i + 1].cum_percent

\* C1 as stated: for every non-empty Pareto table with a nonzero grand total, the
\* percents sum to 100, cum_percent never decreases and its last value is 100
C1_ParetoInvariantAsStated ==
    ParetoDefined => ParetoSumsTo100 /\ ParetoCumNonDecreasing

\* C1 amended: for every non-empty Pareto table with a nonzero grand total the
\* percents sum to 100 and the last cum_percent is 100 (within the rounding); when
\* no category's total is negative, cum_percent never decreases
C1_ParetoInvariant ==
    ParetoDefined =>
        /\ ParetoSumsTo100
        /\ (\A i \in 1..Len(pareto) : pareto[i].total_amount >= 0) => ParetoCumNonDecreasing

\* the spec's example: rows A 100, A 200, B 100 give [A 300 75 75], [B 100 25 100]
C1_Witness ==
    /\ Aggregated
    /\ Len(df) = 3
    /\ pareto = <<[category |-> "A", total_amount |-> 300, percent |-> 75 * Scale,
                   cum_percent |-> 75 * Scale],
                  [category |-> "B", total_amount |-> 100, percent |-> 25 * Scale,
                   cum_percent |-> 100 * Scale]>>

-----------------------------------------------------------------------------
(* C2 *)

\* C2: the top products table has at most top_n rows, sorted descending by
\* total_amount; each row is the rollup of one product of df (its three sums), no
\* product twice; and no product left out has a larger total than one kept
C2_TopProductsTable ==
    (Aggregated /\ ResolveProductLabel(columns) # None) =>
        /\ Len(top_products) <= top_n
        /\ \A i, j \in 1..Len(top_products) :
              i < j => /\ top_products[i].total_amount >= top_products[j].total_amount
                       /\ top_products[i].key # top_products[j].key
        /\ \A i \in 1..Len(top_products) :
              LET row == top_products[i]
              IN /\ row.key \in ProductsOf(df)
                 /\ row.total_amount = ProductSum(df, row.key, "total_amount")
                 /\ row.profit_margin = ProductSum(df, row.key, "profit_margin")
                 /\ row.quantity = ProductSum(df, row.key, "quantity")
        /\ \A k \in ProductsOf(df) :
              PlaceIn(top_products, k) = 0 =>
                  \A i \in 1..Len(top_products) :
                      ProductSum(df, k, "total_amount") <= top_products[i].total_amount

\* more products than top_n, of different totals, and a product of two rows kept
C2_Witness ==
    /\ Aggregated
    /\ ResolveProductLabel(columns) # None
    /\ Cardinality(ProductsOf(df)) > top_n
    /\ Len(top_products) = top_n
    /\ top_products[1].total_amount > top_products[top_n].total_amount
    /\ \E i \in 1..Len(top_products) :
          Len(SelectSeq(df, LAMBDA r : r.product = top_products[i].key)) = 2

-----------------------------------------------------------------------------
(* C3 *)

DateFilterApplied ==
    /\ Filtered
    /\ ResolveDateCol(columns) # None
    /\ Len(date_range) = 2

\* 23:59:59 of a day, in seconds from its midnight
LastSecond == 23 * 3600 + 59 * 60 + 59

\* C3: with the interval [start, end] applied, exactly the rows whose order date d
\* has start 00:00:00 <= d <= end 23:59:59 are kept, in their order
C3_DateIntervalInclusive ==
    DateFilterApplied =>
        ExactlyTheRows(df, df_cat,
            LAMBDA r : /\ r.order_date # NaT
                       /\ date_range[1] * 86400 <= r.order_date
                       /\ r.order_date <= date_range[2] * 86400 + LastSecond)

\* the spec's example: the interval is one day; a row at 23:00:00 of that day is
\* kept, a row at 00:00:01 of the next day is dropped
C3_Witness ==
    /\ DateFilterApplied
    /\ date_range = <<0, 0>>
    /\ \E i \in 1..Len(df_cat) : df_cat[i].order_date = 86400 + 1
    /\ \E i \in 1..Len(df) : df[i].order_date = 23 * 3600
    /\ \A i \in 1..Len(df) : df[i].order_date # 86400 + 1

-----------------------------------------------------------------------------
(* C4 *)

\* the interval applied spans every date of the category-filtered frame
SpansEveryDate ==
    /\ DateFilterApplied
    /\ "category" \in columns
    /\ \A d \in DaysPresent(df_cat) : date_range[1] <= d /\ d <= date_range[2]

NoDateFilter ==
    /\ Filtered
    /\ "category" \in columns
    /\ (ResolveDateCol(columns) = None \/ Len(date_range) # 2)

\* C4 as stated: the category filter {A} with an interval that spans every date
\* gives the rows the category filter {A} gives without a date filter, also when
\* some order dates are missing
C4_FilterCompositionAsStated ==
    (SpansEveryDate /\ Cardinality(selected_categories) = 1) =>
        df = CategoryFilter(Loaded, selected_categories)

\* C4 amended: without a date filter the result is the category-filtered frame; with
\* an interval that spans every date it is the same frame, provided no row of the
\* selected categories has a missing order date
C4_FilterComposition ==
    /\ NoDateFilter => df = CategoryFilter(Loaded, selected_categories)
    /\ (SpansEveryDate /\ \A i \in 1..Len(df_cat) : df_cat[i].order_date # NaT) =>
           df = CategoryFilter(Loaded, selected_categories)

\* category {A}, a spanning interval over two days, all dates present, and a row
\* of the other category in the file
C4_Witness ==
    /\ SpansEveryDate
    /\ selected_categories = {"A"}
    /\ Len(df_raw) > Len(df_cat)
    /\ Cardinality(DaysPresent(df_cat)) = 2
    /\ \A i \in 1..Len(df_cat) : df_cat[i].order_date # NaT
    /\ df = df_cat

-----------------------------------------------------------------------------
(* C5 *)

\* C5 as stated: for a filtered frame of zero rows total_sales is 0, the average
\* profit margin is missing, the order count is 0 and the average order value is
\* missing
C5_EmptyKpisAsStated ==
    (Aggregated /\ Len(df) = 0) =>
        /\ kpi.total_sales = 0
        /\ kpi.avg_profit = NotFinite
        /\ kpi.num_orders = 0
        /\ kpi.avg_order_value = NotFinite

\* C5 amended: for a filtered frame of zero rows total_sales is 0, the average
\* profit margin is missing, the order count is 0 and the average order value is 0
C5_EmptyKpis ==
    (Aggregated /\ Len(df) = 0) =>
        /\ kpi.total_sales = 0
        /\ kpi.avg_profit = NotFinite
        /\ kpi.num_orders = 0
        /\ kpi.avg_order_value = 0

\* an empty file has been aggregated
C5_Witness ==
    /\ pc = "aggregated"
    /\ file.readable
    /\ "category" \in columns
    /\ df = <<>>
    /\ kpi.num_orders = 0

-----------------------------------------------------------------------------
(* C7 *)

WeeklyComputed == Aggregated /\ ResolveDateCol(columns) # None

\* the week of a timestamp, counted from the first Monday
WeekNo(ts) == ts \div (7 * 86400)

\* the weeks that hold a dated row of df
WeeksPresent == {WeekNo(df[i].order_date) : i \in {j \in 1..Len(df) : df[j].order_date # NaT}}

\* the week a row of the series stands for
WeekOfLabel(row) == WeekNo(row.week_end)

WeekTotal(w) ==
    SumField(SelectSeq(df, LAMBDA r : r.order_date # NaT /\ WeekNo(r.order_date) = w),
             "total_amount")

WeeklyRowsAreWeeks(weeks) ==
    /\ {WeekOfLabel(sales_time[i]) : i \in 1..Len(sales_time)} = weeks
    /\ Len(sales_time) = Cardinality(weeks)
    /\ \A i \in 1..Len(sales_time) :
          /\ sales_time[i].total_amount = WeekTotal(WeekOfLabel(sales_time[i]))
          /\ sales_time[i].week_end = (7 * WeekOfLabel(sales_time[i]) + 6) * 86400

\* C7 as stated: the weekly series has one row for each week that holds a filtered
\* transaction and none for a week that holds none; each total is the week's sum
C7_WeeklySparseAsStated ==
    WeeklyComputed => WeeklyRowsAreWeeks(WeeksPresent)

\* C7 amended: the weekly series has one row for every week from the first week that
\* holds a filtered transaction to the last one, the weeks between them that hold no
\* transaction included with a total of 0, and no row outside that span; each total
\* is the week's sum
C7_WeeklyDense ==
    WeeklyComputed =>
        WeeklyRowsAreWeeks(IF WeeksPresent = {} THEN {}
                           ELSE SetMin(WeeksPresent)..SetMax(WeeksPresent))

\* transactions in the first and in the fourth week: four rows, two of them 0
C7_Witness ==
    /\ WeeklyComputed
    /\ WeeksPresent = {0, 3}
    /\ Len(sales_time) = 4
    /\ sales_time[2].total_amount = 0
    /\ sales_time[4].total_amount > 0

-----------------------------------------------------------------------------
(* C8 *)

TopComputed == Aggregated /\ ResolveProductLabel(columns) # None

TotalOf(k) == ProductSum(df, k, "total_amount")

\* C8 as stated: products of equal total are ordered, and chosen at the cut, by the
\* order in which their keys first occur in the filtered frame
C8_TiesFirstEncounteredAsStated ==
    TopComputed =>
        \A p, q \in ProductsOf(df) :
            (p # q /\ TotalOf(p) = TotalOf(q) /\ FirstSeen(df, p) < FirstSeen(df, q)) =>
                /\ PlaceIn(top_products, q) # 0 => PlaceIn(top_products, p) # 0
                /\ (PlaceIn(top_products, p) # 0 /\ PlaceIn(top_products, q) # 0) =>
                       PlaceIn(top_products, p) < PlaceIn(top_products, q)

\* C8 amended: the order of first occurrence does not decide between products of
\* equal total; a product is left out only when the table holds top_n products
\* whose totals are all at least its own
C8_TiesCutOnlyWhenFull ==
    TopComputed =>
        \A q \in ProductsOf(df) :
            PlaceIn(top_products, q) = 0 =>
                /\ Len(top_products) = top_n
                /\ \A i \in 1..Len(top_products) : top_products[i].total_amount >= TotalOf(q)

\* two products of equal total, the one seen later kept and the one seen first cut
C8_Witness ==
    /\ TopComputed
    /\ Len(top_products) = top_n
    /\ \E p, q \in ProductsOf(df) :
          /\ TotalOf(p) = TotalOf(q)
          /\ FirstSeen(df, p) < FirstSeen(df, q)
          /\ PlaceIn(top_products, p) = 0
          /\ PlaceIn(top_products, q) # 0

-----------------------------------------------------------------------------
(* C9 *)

\* C9: an empty selection leaves every row, those without a category included; a
\* non-empty one keeps exactly the rows whose category is selected; the order of the
\* rows and the columns are unchanged
C9_CategoryFilter ==
    (Filtered /\ "category" \in columns) =>
        /\ columns = file.columns
        /\ selected_categories = {} => df_cat = Loaded
        /\ selected_categories # {} =>
               ExactlyTheRows(df_cat, Loaded, LAMBDA r : r.category \in selected_categories)

\* nothing selected, and a row without a category among the rows returned
C9_Witness ==
    /\ pc = "filtered"
    /\ "category" \in columns
    /\ selected_categories = {}
    /\ Len(df_cat) = 3
    /\ df_cat[2].category = NA
    /\ df_cat[3].category = "B"

-----------------------------------------------------------------------------
(* C10 *)

AboutCategory == {i \in 1..Len(insights) : insights[i].about = "category"}
AboutProduct == {i \in 1..Len(insights) : insights[i].about = "product"}

====
